---- MODULE Spec2Model ----
(***************************************************************************)
(* A model of the OTRS Prometheus exporter (src/otrs/collector.py).         *)
(*                                                                          *)
(* Text is modelled at the level of characters inside a cell or a value    *)
(* (a string is a sequence of one-character strings) and at the level of   *)
(* lines and "|"-delimited cells for the console tables: a regular         *)
(* expression of the source becomes the test of the cells of one line.     *)
(* A Python exception is a result record whose field exc names it.          *)
(***************************************************************************)
EXTENDS Integers, Sequences, FiniteSets, TLC

VARIABLES
    now,                \* datetime.now(), in seconds since datetime.min
    ticks,              \* clock steps taken (bounded by MaxTicks)
    last_db_check_performed,      \* OtrsConnector._last_db_check_performed
    last_db_ok_check_performed,   \* OtrsConnector._last_db_ok_check_performed
    last_mail_error_occurred,     \* OtrsConnector._last_mail_error_occurred
    db_stats_cache,     \* OtrsConnector._db_stats_cache
    db_ok_cache,        \* OtrsConnector._db_ok_cache
    mail_fetcher_errors,\* OtrsConnector._mail_fetcher_errors
    logfile,            \* the watched log: the lines appended so far
    log,                \* the Pygtail reader: lines of logfile already read
    offset_file,        \* /dev/shm/logfile.offset
    batch,              \* the metric families the last collect() yielded
    raised,             \* the exception that ended the last collect(), or "none"
    obs,                \* what the last collect() saw and did
    hist,               \* history of the process: polls and deliveries
    pc, arg, out        \* the parser harness: phase, input, result

vars == << now, ticks, last_db_check_performed, last_db_ok_check_performed,
           last_mail_error_occurred, db_stats_cache, db_ok_cache,
           mail_fetcher_errors, logfile, log, offset_file, batch, raised,
           obs, hist, pc, arg, out >>

----------------------------------------------------------------------------
(* Bounds of the model.                                                     *)

MaxTicks == 3
MaxLog == 2
MaxTokens == 4
MaxRows == 4

----------------------------------------------------------------------------
(* Python strings and lists.                                                *)

NoExc == "none"

Ok(v) == [exc |-> NoExc, val |-> v]

Raise(e) == [exc |-> e, val |-> <<>>]

Digits == {"0", "1", "2", "3", "4", "5", "6", "7", "8", "9"}

Upper == <<"A", "B", "C", "D", "E", "F", "G", "H", "I", "J", "K", "L", "M",
           "N", "O", "P", "Q", "R", "S", "T", "U", "V", "W", "X", "Y", "Z">>

Lower == <<"a", "b", "c", "d", "e", "f", "g", "h", "i", "j", "k", "l", "m",
           "n", "o", "p", "q", "r", "s", "t", "u", "v", "w", "x", "y", "z">>

Range(s) == {s[i] : i \in DOMAIN s}

IsUpper(c) == c \in Range(Upper)

\* the character class \w
IsWord(c) == c \in Range(Upper) \cup Range(Lower) \cup Digits \cup {"_"}

\* the character class [A-Za-z0-9]
IsAlnum(c) == c \in Range(Upper) \cup Range(Lower) \cup Digits

\* the character class [\s\d:\-]
IsTimeChar(c) == c \in Digits \cup {" ", ":", "-"}

LowerChar(c) ==
    IF IsUpper(c) THEN Lower[CHOOSE i \in DOMAIN Upper : Upper[i] = c] ELSE c

\* str.lower()
StrLower(s) == [i \in DOMAIN s |-> LowerChar(s[i])]

DigitVal(c) ==
    CASE c = "0" -> 0 [] c = "1" -> 1 [] c = "2" -> 2 [] c = "3" -> 3
      [] c = "4" -> 4 [] c = "5" -> 5 [] c = "6" -> 6 [] c = "7" -> 7
      [] c = "8" -> 8 [] c = "9" -> 9

\* float(s) succeeds: the strings of the model are digit strings or hold a
\* letter or a bracket, so float() accepts exactly the digit strings
IsFloat(s) == s # <<>> /\ \A i \in DOMAIN s : s[i] \in Digits

RECURSIVE ParseDigits(_)
ParseDigits(s) ==
    IF s = <<>> THEN 0
    ELSE 10 * ParseDigits(SubSeq(s, 1, Len(s) - 1)) + DigitVal(s[Len(s)])

\* s.startswith(p)
StartsWith(s, p) == Len(s) >= Len(p) /\ SubSeq(s, 1, Len(p)) = p

\* p in s
Contains(s, p) ==
    \E i \in 1..(Len(s) - Len(p) + 1) : SubSeq(s, i, i + Len(p) - 1) = p

\* s.count(p): occurrences that do not overlap, from the left
RECURSIVE StrCount(_, _)
StrCount(s, p) ==
    IF Len(s) < Len(p) THEN 0
    ELSE IF StartsWith(s, p)
         THEN 1 + StrCount(SubSeq(s, Len(p) + 1, Len(s)), p)
         ELSE StrCount(Tail(s), p)

RECURSIVE LStrip(_, _)
LStrip(s, c) == IF s # <<>> /\ Head(s) = c THEN LStrip(Tail(s), c) ELSE s

RECURSIVE RStrip(_, _)
RStrip(s, c) ==
    IF s # <<>> /\ s[Len(s)] = c THEN RStrip(SubSeq(s, 1, Len(s) - 1), c)
    ELSE s

\* s.strip(c)
Strip(s, c) == RStrip(LStrip(s, c), c)

\* s.replace(p, r)
RECURSIVE StrReplace(_, _, _)
StrReplace(s, p, r) ==
    IF Len(s) < Len(p) \/ p = <<>> THEN s
    ELSE IF StartsWith(s, p)
         THEN r \o StrReplace(SubSeq(s, Len(p) + 1, Len(s)), p, r)
         ELSE <<Head(s)>> \o StrReplace(Tail(s), p, r)

\* s.split(" "): every single space separates, so two spaces give an empty token
RECURSIVE SplitFrom(_, _)
SplitFrom(s, cur) ==
    IF s = <<>> THEN <<cur>>
    ELSE IF Head(s) = " " THEN <<cur>> \o SplitFrom(Tail(s), <<>>)
         ELSE SplitFrom(Tail(s), Append(cur, Head(s)))

Split(s) == SplitFrom(s, <<>>)

\* " ".join(tokens)
RECURSIVE Join(_)
Join(tokens) ==
    IF tokens = <<>> THEN <<>>
    ELSE IF Len(tokens) = 1 THEN tokens[1]
         ELSE tokens[1] \o <<" ">> \o Join(Tail(tokens))

\* del l[i], with Python's index from the end for a negative i
DelAt(l, i) == SubSeq(l, 1, i - 1) \o SubSeq(l, i + 1, Len(l))

\* a dict, in insertion order: a sequence of [k, v] with distinct keys
DictKeys(d) == {d[i].k : i \in DOMAIN d}

DictGet(d, key) == (CHOOSE i \in DOMAIN d : d[i].k = key)

DictSet(d, key, v) ==
    IF key \in DictKeys(d)
    THEN [i \in DOMAIN d |-> IF d[i].k = key THEN [k |-> key, v |-> v] ELSE d[i]]
    ELSE Append(d, [k |-> key, v |-> v])

RECURSIVE DictOf(_)
DictOf(pairs) ==
    IF pairs = <<>> THEN <<>>
    ELSE DictSet(DictOf(SubSeq(pairs, 1, Len(pairs) - 1)),
                 pairs[Len(pairs)].k, pairs[Len(pairs)].v)

----------------------------------------------------------------------------
(* The words the parsers look for.                                          *)

W_Status == <<"S", "t", "a", "t", "u", "s">>

W_Online == <<"O", "n", "-", "l", "i", "n", "e">>

W_Fail == <<"F", "a", "i", "l">>

W_OK == <<"O", "K">>

W_MB == <<"M", "B">>

W_GB == <<"G", "B">>

W_Node == <<"N", "o", "d", "e">>

W_Success == <<"S", "u", "c", "c", "e", "s", "s">>

W_ConnectionSuccessful == <<"C", "o", "n", "n", "e", "c", "t", "i", "o", "n", " ", "s", "u", "c", "c", "e", "s", "s", "f", "u", "l", ".">>


----------------------------------------------------------------------------
(* The external process invoker.                                            *)
(*                                                                          *)
(* A run of the console is a record proc: found (the binary exists), rc    *)
(* (its exit code), decodable (its standard output is valid UTF-8) and     *)
(* stdout, the text it printed: a sequence of lines, each a record         *)
(* [table, indent, cells]. A table line is "|"-delimited and cells holds   *)
(* its cells without the blanks around them; any other line has one cell,  *)
(* its text. indent says that white space precedes the first "|".          *)

TableRow(indent, cells) == [table |-> TRUE, indent |-> indent, cells |-> cells]

TextLine(text) == [table |-> FALSE, indent |-> FALSE, cells |-> <<text>>]

EmptyText == <<>>

\* subprocess.run([...], stdout=PIPE).stdout.decode("utf-8"): no check=True,
\* so the exit code is not looked at
RunAndDecode(proc) ==
    IF ~proc.found THEN Raise("FileNotFoundError")
    ELSE IF ~proc.decodable THEN Raise("UnicodeDecodeError")
    ELSE Ok(proc.stdout)

call_otrs_cli(proc) == RunAndDecode(proc)

\* phrase in otrs_cli_out
TextContains(text, phrase) ==
    \E i \in DOMAIN text :
        \E j \in DOMAIN text[i].cells : Contains(text[i].cells[j], phrase)

RECURSIVE SumOver(_, _)
SumOver(f, n) == IF n = 0 THEN 0 ELSE f[n] + SumOver(f, n - 1)

\* otrs_cli_out.count(word)
TextCount(text, word) ==
    SumOver([i \in DOMAIN text |->
                SumOver([j \in DOMAIN text[i].cells |->
                            StrCount(text[i].cells[j], word)],
                        Len(text[i].cells))],
            Len(text))

\* re.findall over the lines: the captures of the lines that match, in order
----------------------------------------------------------------------------
(* The output parsers.                                                      *)

PhraseFlag(proc, phrase) ==
    LET r == call_otrs_cli(proc)
    IN  IF r.exc # NoExc THEN r
        ELSE Ok(IF TextContains(r.val, phrase) THEN 1 ELSE 0)

get_mail_queue_empty(proc) ==
    LET r == RunAndDecode(proc)
    IN  IF r.exc # NoExc THEN r
        ELSE Ok(IF TextContains(r.val, <<"M", "a", "i", "l", " ", "q", "u", "e", "u", "e", " ", "i", "s", " ", "e", "m", "p", "t", "y", ".">>) THEN 1 ELSE 0)

is_config_valid(proc) == PhraseFlag(proc, <<"A", "l", "l", " ", "s", "e", "t", "t", "i", "n", "g", "s", " ", "a", "r", "e", " ", "v", "a", "l", "i", "d", ".">>)

get_db_status(proc) == PhraseFlag(proc, W_ConnectionSuccessful)

get_elastic_status(proc) == PhraseFlag(proc, W_ConnectionSuccessful)

\* ^\s*\|\s*([A-Za-z0-9]+)\s*\|\s*[\s\d:\-]*\|\s*<status>
CronRowMatches(line, status) ==
    /\ line.table
    /\ Len(line.cells) >= 3
    /\ line.cells[1] # <<>>
    /\ (\A i \in DOMAIN line.cells[1] : IsAlnum(line.cells[1][i]))
    /\ (\A i \in DOMAIN line.cells[2] : IsTimeChar(line.cells[2][i]))
    /\ StartsWith(line.cells[3], status)

CronName(line) == line.cells[1]

\* the pattern of get_successful_crons in the place of that of get_failing_crons
CronFails_Success(line) == CronRowMatches(line, W_Success)

CronFails(line) == CronRowMatches(line, W_Fail)


FailingCronsDict(matching) ==
    DictOf([i \in DOMAIN matching |-> [k |-> matching[i], v |-> <<"0">>]])

get_failing_crons(proc) ==
    LET r == call_otrs_cli(proc)
        hits == SelectSeq(r.val, CronFails)
        matching == [i \in DOMAIN hits |-> CronName(hits[i])]
    IN  IF r.exc # NoExc THEN r ELSE Ok(FailingCronsDict(matching))

\* a Python number: num / den * 1024^e, so that neither a quotient nor a
\* size in bytes leaves the integers of the checker
Num(n) == [num |-> n, den |-> 1, e |-> 0]

\* x * 1024
Times1024(x) == [x EXCEPT !.e = @ + 1]

\* x == y for two numbers
NumEq(x, y) == x.e = y.e /\ x.num * y.den = y.num * x.den

\* daemon_success / daemon_total
Divide(n, d) ==
    IF d = 0 THEN Raise("ZeroDivisionError")
    ELSE Ok([num |-> n, den |-> d, e |-> 0])

get_job_success_rate(proc) ==
    LET r == call_otrs_cli(proc)
    IN  IF r.exc # NoExc THEN r
        ELSE LET daemon_success == TextCount(r.val, W_Success)
                 daemon_total == daemon_success + TextCount(r.val, W_Fail)
             IN  Divide(daemon_success, daemon_total)

\* the cell of a "Node"/"Status" line:  ^\s+\|\s+<key>\s+\|\s+(...)\s+\|$
ElasticRow(line, key) ==
    /\ line.table
    /\ line.indent
    /\ Len(line.cells) = 2
    /\ line.cells[1] = key

\* (\w+)
IsWordCell(s) == s # <<>> /\ (\A i \in DOMAIN s : IsWord(s[i]))

\* (\w+\W\w+)
IsWordNonWordWord(s) ==
    \E i \in 2..(Len(s) - 1) :
        /\ ~IsWord(s[i])
        /\ \A j \in DOMAIN s : j # i => IsWord(s[j])

NodeNameMatches(line) == ElasticRow(line, W_Node) /\ IsWordCell(line.cells[2])

NodeStateMatches(line) ==
    ElasticRow(line, W_Status) /\ IsWordNonWordWord(line.cells[2])

ClusterStatusMatches(line) ==
    ElasticRow(line, W_Status) /\ IsWordCell(line.cells[2])

SecondCell(line) == line.cells[2]

Min(a, b) == IF a < b THEN a ELSE b

\* {n: s for n, s in zip(nodes, states)}
ZipDict(ks, vs) ==
    DictOf([i \in 1..Min(Len(ks), Len(vs)) |-> [k |-> ks[i], v |-> vs[i]]])

get_elastic_all_nodes_states(proc) ==
    LET r == call_otrs_cli(proc)
        named == SelectSeq(r.val, NodeNameMatches)
        stated == SelectSeq(r.val, NodeStateMatches)
        nodes == [i \in DOMAIN named |-> SecondCell(named[i])]
        states == [i \in DOMAIN stated |-> SecondCell(stated[i])]
    IN  IF r.exc # NoExc THEN r ELSE Ok(ZipDict(nodes, states))

Half == [num |-> 1, den |-> 2, e |-> 0]

\* the number of nodes taken for the number of distinct states
OverallFromStates_ByCount(states) ==
    IF W_Online \notin Range(states) THEN Num(0)
    ELSE IF Len(states) > 1 THEN Half
    ELSE Num(1)

\* lines 248-256: the status from the states found, through set(states)
OverallFromStates(states) ==
    LET unique_status == Range(states)
    IN  IF W_Online \notin unique_status THEN Num(0)
        ELSE IF Cardinality(unique_status) > 1 THEN Half
        ELSE Num(1)

get_elastic_overall_nodes_status(proc) ==
    LET r == call_otrs_cli(proc)
        hits == SelectSeq(r.val, NodeStateMatches)
        states == [i \in DOMAIN hits |-> SecondCell(hits[i])]
    IN  IF r.exc # NoExc THEN r ELSE Ok(OverallFromStates(states))

state_to_bool ==
    << [k |-> <<"R", "e", "d">>, v |-> Num(0)], [k |-> <<"Y", "e", "l", "l", "o", "w">>, v |-> Half],
       [k |-> <<"G", "r", "e", "e", "n">>, v |-> Num(1)] >>

\* for match in matching: result[match] = state_to_bool[match]
RECURSIVE ClusterResult(_, _)
ClusterResult(matching, result) ==
    IF matching = <<>> THEN Ok(result)
    ELSE IF Head(matching) \notin DictKeys(state_to_bool)
         THEN Raise("KeyError")
         ELSE ClusterResult(Tail(matching),
                  DictSet(result, Head(matching),
                          state_to_bool[DictGet(state_to_bool, Head(matching))].v))

get_elastic_overall_cluster_status(proc) ==
    LET r == call_otrs_cli(proc)
        hits == SelectSeq(r.val, ClusterStatusMatches)
        matching == [i \in DOMAIN hits |-> SecondCell(hits[i])]
    IN  IF r.exc # NoExc THEN r ELSE ClusterResult(matching, <<>>)

\* ^\s+\|\s+(\w+)\s+\|\s+(\d+)\s+\|\s+(\d+)\s+\|.*$
IndexRowMatches(line) ==
    /\ line.table
    /\ line.indent
    /\ Len(line.cells) >= 3
    /\ IsWordCell(line.cells[1])
    /\ IsFloat(line.cells[2])
    /\ IsFloat(line.cells[3])

\* re.sub(r'(?<!^)(?=[A-Z])', '_', name).lower()
RECURSIVE SnakeFrom(_, _)
SnakeFrom(s, first) ==
    IF s = <<>> THEN <<>>
    ELSE (IF IsUpper(Head(s)) /\ ~first THEN <<"_">> ELSE <<>>)
         \o <<LowerChar(Head(s))>> \o SnakeFrom(Tail(s), FALSE)

CamelToSnake(name) == SnakeFrom(name, TRUE)

IndexedEntry(line) ==
    [k |-> CamelToSnake(line.cells[1]) \o <<"_">> \o <<"i", "n", "d", "e", "x", "e", "d">>, v |-> line.cells[3]]

AvailEntry(line) ==
    [k |-> CamelToSnake(line.cells[1]) \o <<"_">> \o <<"a", "v", "a", "i", "l">>, v |-> line.cells[2]]

\* indices_dict = indices_indexed; indices_dict.update(indices_avail)
get_elastic_index_states(proc) ==
    LET r == RunAndDecode(proc)
        indices == SelectSeq(r.val, IndexRowMatches)
        indices_indexed == [i \in DOMAIN indices |-> IndexedEntry(indices[i])]
        indices_avail == [i \in DOMAIN indices |-> AvailEntry(indices[i])]
    IN  IF r.exc # NoExc THEN r ELSE Ok(DictOf(indices_indexed \o indices_avail))

\* ^(\w[\w\s]+)\: (.*)$ on one line: the label runs to the first character
\* that is neither \w nor a blank, which has to be the colon
LabelEnd(s) ==
    IF \E i \in DOMAIN s : ~(IsWord(s[i]) \/ s[i] = " ")
    THEN CHOOSE i \in DOMAIN s :
            /\ ~(IsWord(s[i]) \/ s[i] = " ")
            /\ \A j \in 1..(i - 1) : IsWord(s[j]) \/ s[j] = " "
    ELSE 0

StatLineMatches(line) ==
    /\ ~line.table
    /\ LET s == line.cells[1]
           i == LabelEnd(s)
       IN  /\ i >= 3
           /\ IsWord(s[1])
           /\ s[i] = ":"
           /\ Len(s) > i
           /\ s[i + 1] = " "

\* match[0].lower().replace(" ", "_")
StatKey(label) == StrReplace(StrLower(label), <<" ">>, <<"_">>)

\* match[1].strip(" ").strip("(").strip(")").replace(" (", " - ")
StatValue(v) ==
    StrReplace(Strip(Strip(Strip(v, " "), "("), ")"), <<" ", "(">>, <<" ", "-", " ">>)

StatEntry(line) ==
    LET s == line.cells[1]
        i == LabelEnd(s)
    IN  [k |-> StatKey(SubSeq(s, 1, i - 1)),
         v |-> StatValue(SubSeq(s, i + 2, Len(s)))]

get_additional_db_stats(proc) ==
    LET r == call_otrs_cli(proc)
        matching == SelectSeq(r.val, StatLineMatches)
    IN  IF r.exc # NoExc THEN r
        ELSE Ok(DictOf([i \in DOMAIN matching |-> StatEntry(matching[i])]))

----------------------------------------------------------------------------
(* The stats normalizer. An element of a value list is a string or, once   *)
(* converted, a float.                                                      *)

Str(s) == [t |-> "str", s |-> s, x |-> Num(0)]

Flt(x) == [t |-> "float", s |-> <<>>, x |-> x]

\* v.split(" ")
SplitValue(v) == LET toks == Split(v) IN [i \in DOMAIN toks |-> Str(toks[i])]

\* kilobytes for megabytes: float(value[0]) * 1024
MegaBytes_Times1024(s) == Times1024(Num(ParseDigits(s)))

\* float(value[0]) * 1024 * 1024
MegaBytes(s) == Times1024(Times1024(Num(ParseDigits(s))))

\* float(value[0]) * 1024 * 1024 * 1024
GigaBytes(s) == Times1024(Times1024(Times1024(Num(ParseDigits(s)))))

\* lines 396-403: the try block, on the list after the first del value[-2]
ConvertUnit(value) ==
    IF Len(value) < 2 THEN Raise("IndexError")
    ELSE IF value[2] = Str(W_MB)
         THEN IF ~IsFloat(value[1].s) THEN Ok(value)
              ELSE Ok(DelAt([value EXCEPT ![1] = Flt(MegaBytes(value[1].s))],
                            Len(value) - 1))
    ELSE IF value[2] = Str(W_GB)
         THEN IF ~IsFloat(value[1].s) THEN Ok(value)
              ELSE Ok(DelAt([value EXCEPT ![1] = Flt(GigaBytes(value[1].s))],
                            Len(value) - 1))
    ELSE Ok(DelAt(value, Len(value) - 1))

\* lines 404-407
Recombine(value) ==
    IF Len(value) # 3 THEN Ok(value)
    ELSE IF value[1].t # "str" THEN Raise("TypeError")
    ELSE Ok(<< Str(value[1].s \o <<" ">> \o value[2].s), value[3] >>)

\* the body of the loop of prepare_additional_stats_dict, for one value
PrepareValue(value) ==
    IF Len(value) <= 1 THEN Ok(value)
    ELSE LET c == ConvertUnit(DelAt(value, Len(value) - 1))
         IN  IF c.exc # NoExc THEN c ELSE Recombine(c.val)

RECURSIVE PrepareFrom(_, _)
PrepareFrom(stats, done) ==
    IF stats = <<>> THEN Ok(done)
    ELSE LET r == PrepareValue(Head(stats).v)
         IN  IF r.exc # NoExc THEN r
             ELSE PrepareFrom(Tail(stats),
                              Append(done, [k |-> Head(stats).k, v |-> r.val]))

prepare_additional_stats_dict(stats_dict) == PrepareFrom(stats_dict, <<>>)

----------------------------------------------------------------------------
(* The metric builder. A family is [signal, name, family, value]: the      *)
(* method of collect() that built it, its metric name, its kind, and what  *)
(* add_metric was given: one element (a number or a string) or a dict.     *)

Value(tok) == [kind |-> "value", tok |-> tok, dict |-> <<>>]

Labels(d) == [kind |-> "dict", tok |-> Flt(Num(0)), dict |-> d]

\* a dict of strings as add_metric receives it
StrDict(d) == [i \in DOMAIN d |-> [k |-> d[i].k, v |-> Str(d[i].v)]]

NumDict(d) == [i \in DOMAIN d |-> [k |-> d[i].k, v |-> Flt(d[i].v)]]

Family(signal, name, family, value) ==
    [signal |-> signal, name |-> name, family |-> family, value |-> value]

\* a method that builds one gauge from a parser's number
GaugeOf(signal, name, r) ==
    IF r.exc # NoExc THEN r
    ELSE Ok(<< Family(signal, name, "gauge", Value(Flt(r.val))) >>)

IntResult(r) == IF r.exc # NoExc THEN r ELSE Ok(Num(r.val))

_metric_mail_queue_empty(proc) ==
    GaugeOf("_metric_mail_queue_empty", <<"o", "t", "r", "s", "_", "e", "l", "a", "s", "t", "i", "c", "_", "s", "t", "a", "t", "u", "s", "_", "o", "k">>,
            IntResult(get_mail_queue_empty(proc)))

_metric_config_valid(proc) ==
    GaugeOf("_metric_config_valid", <<"o", "t", "r", "s", "_", "c", "o", "n", "f", "i", "g", "_", "v", "a", "l", "i", "d">>, IntResult(is_config_valid(proc)))

_metric_daemon_summary(proc) ==
    GaugeOf("_metric_daemon_summary", <<"o", "t", "r", "s", "_", "d", "a", "e", "m", "o", "n", "_", "s", "u", "m", "m", "a", "r", "y">>, get_job_success_rate(proc))

_metric_elastic_status_ok(proc) ==
    GaugeOf("_metric_elastic_status_ok", <<"o", "t", "r", "s", "_", "e", "l", "a", "s", "t", "i", "c", "_", "s", "t", "a", "t", "u", "s", "_", "o", "k">>,
            IntResult(get_elastic_status(proc)))

_metric_elastic_overall_node_status(proc) ==
    GaugeOf("_metric_elastic_overall_node_status", <<"o", "t", "r", "s", "_", "e", "l", "a", "s", "t", "i", "c", "_", "n", "o", "d", "e", "_", "s", "t", "a", "t", "u", "s">>,
            get_elastic_overall_nodes_status(proc))

_metric_failing_crons(proc) ==
    LET r == get_failing_crons(proc)
    IN  IF r.exc # NoExc THEN r
        ELSE Ok(<< Family("_metric_failing_crons", <<"o", "t", "r", "s", "_", "d", "a", "e", "m", "o", "n", "_", "c", "r", "o", "n", "_", "j", "o", "b", "s">>, "info",
                          Labels(StrDict(r.val))) >>)

_metric_elastic_cluster_status(proc) ==
    LET r == get_elastic_overall_cluster_status(proc)
    IN  IF r.exc # NoExc THEN r
        ELSE Ok(<< Family("_metric_elastic_cluster_status",
                          <<"o", "t", "r", "s", "_", "e", "l", "a", "s", "t", "i", "c", "_", "c", "l", "u", "s", "t", "e", "r", "_", "s", "t", "a", "t", "u", "s">>, "stateset",
                          Labels(NumDict(r.val))) >>)

_metric_elastic_all_nodes_status(proc) ==
    LET r == get_elastic_all_nodes_states(proc)
    IN  IF r.exc # NoExc THEN r
        ELSE Ok(<< Family("_metric_elastic_all_nodes_status",
                          <<"o", "t", "r", "s", "_", "e", "l", "a", "s", "t", "i", "c", "_", "f", "a", "i", "l", "e", "d", "_", "n", "o", "d", "e", "s">>, "info",
                          Labels(StrDict(r.val))) >>)

\* entry.rsplit("_", 1)[0]
RECURSIVE RSplitHead(_)
RSplitHead(s) ==
    IF s = <<>> THEN <<>>
    ELSE IF s[Len(s)] = "_" THEN SubSeq(s, 1, Len(s) - 1)
    ELSE IF \A i \in DOMAIN s : s[i] # "_" THEN s
    ELSE RSplitHead(SubSeq(s, 1, Len(s) - 1))

\* lines 165-169: x / y, and 1.0 for y == 0
Percentage(x, y) ==
    IF y = 0 THEN Num(1) ELSE [num |-> x, den |-> y, e |-> 0]

\* lines 158-179
IndexStateFamilies(indices) ==
    LET HasAvail(en) == Contains(en.k, <<"a", "v", "a", "i", "l">>)
        HasIndexed(en) == Contains(en.k, <<"i", "n", "d", "e", "x", "e", "d">>)
        avail == SelectSeq(indices, HasAvail)
        indexed == SelectSeq(indices, HasIndexed)
        keys == [i \in DOMAIN indices |-> RSplitHead(indices[i].k) \o <<"_", "p", "e", "r", "c", "e", "n", "t", "a", "g", "e">>]
        values == [i \in 1..Min(Len(indexed), Len(avail)) |->
                      Percentage(ParseDigits(indexed[i].v), ParseDigits(avail[i].v))]
        percentages == ZipDict(keys, values)
    IN  [i \in DOMAIN indices |->
            Family("_metric_elastic_index_states",
                   <<"o", "t", "r", "s", "_", "e", "l", "a", "s", "t", "i", "c", "_", "i", "n", "d", "e", "x", "_", "s", "t", "a", "t", "e", "s", "_">> \o indices[i].k, "gauge",
                   Value(Flt(Num(ParseDigits(indices[i].v)))))]
        \o
        [i \in DOMAIN percentages |->
            Family("_metric_elastic_index_states",
                   <<"o", "t", "r", "s", "_", "e", "l", "a", "s", "t", "i", "c", "_", "i", "n", "d", "e", "x", "_">> \o percentages[i].k, "gauge",
                   Value(Flt(percentages[i].v)))]

_metric_elastic_index_states(proc) ==
    LET r == get_elastic_index_states(proc)
    IN  IF r.exc # NoExc THEN r ELSE Ok(IndexStateFamilies(r.val))

\* lines 107-123: the family of one normalized stat
StatFamily(key, value) ==
    LET info == value[1].t = "str" /\ Len(value) > 1
        family == IF info THEN "info" ELSE "gauge"
        last == value[Len(value)]
        payload ==
            IF last \notin {Str(<<"I", "n", "f", "o">>), Str(W_OK)}
            THEN Labels(<< [k |-> <<"N", "O", "K">>, v |-> Flt(Num(0))] >>)
            ELSE IF last = Str(<<"I", "n", "f", "o">>) THEN Value(value[1])
            ELSE IF value[1].t = "str"
                 THEN IF info THEN Labels(<< [k |-> W_OK, v |-> value[1]] >>)
                      ELSE Value(Flt(Num(1)))
            ELSE Value(value[1])
    IN  Family("_metric_db_additional_stats", key, family, payload)

\* lines 103-124: the families built from the cached stats
DbStatsFamilies(cache) ==
    LET stats_dict == [i \in DOMAIN cache |->
                          [k |-> <<"o", "t", "r", "s", "_", "a", "d", "d", "i", "t", "i", "o", "n", "a", "l", "_", "d", "b", "_", "s", "t", "a", "t", "s", "_">> \o cache[i].k,
                           v |-> SplitValue(cache[i].v)]]
        Families(r) ==
            IF r.exc # NoExc THEN r
            ELSE Ok([i \in DOMAIN r.val |-> StatFamily(r.val[i].k, r.val[i].v)])
    IN  Families(prepare_additional_stats_dict(stats_dict))

----------------------------------------------------------------------------
(* The log tail reader (pygtail) and the mail error count.                  *)

\* Pygtail(...).__next__ until StopIteration: the lines after the offset
PollNewLines(file, offset) == SubSeq(file, offset + 1, Len(file))

MailPatterns == << <<"G", "o", "t", " ", "n", "o", " ", "e", "m", "a", "i", "l">>, <<"S", "/", "M", "I", "M", "E">>, <<"C", "o", "u", "l", "d", " ", "n", "o", "t", " ", "r", "e", "-", "p", "r", "o", "c", "e", "s", "s", " ", "e", "m", "a", "i", "l">>, <<"P", "o", "s", "t", "M", "a", "s", "t", "e", "r">> >>

\* any(s in line for s in [...])
IsMailError(line) == \E i \in DOMAIN MailPatterns : Contains(line, MailPatterns[i])

\* a count of the patterns found, not of the lines that hold one
get_mail_fetcher_errors_PerPattern(lines) ==
    SumOver([i \in DOMAIN lines |->
                Cardinality({j \in DOMAIN MailPatterns :
                                Contains(lines[i], MailPatterns[j])})],
            Len(lines))

\* the loop of get_mail_fetcher_errors over the lines the reader yields
get_mail_fetcher_errors(lines) == Len(SelectSeq(lines, IsMailError))

CacheWindow == 900

\* timedelta.seconds: the seconds within the day, the days left out
SecondsOf(delta) == delta % (24 * 3600)

\* a running total that is never reset
MailErrorTotal_NeverReset(errors, delta, new_errors) == errors + new_errors

\* lines 48-51
MailErrorTotal(errors, delta, new_errors) ==
    IF SecondsOf(delta) < CacheWindow THEN errors + new_errors ELSE new_errors

\* lines 91 and 100: delta.seconds > 900
CheckIsDue(delta) == SecondsOf(delta) > CacheWindow

\* the check is run at every scrape, whatever the age of the entry
CacheOrCheck_AlwaysCheck(due, check, cache) == check

\* lines 91-94 and 100-104: what the method goes on with, the result of the
\* check when it is due and the cached entry otherwise
CacheOrCheck(due, check, cache) == IF due THEN check ELSE Ok(cache)

----------------------------------------------------------------------------
(* The environment: what the console prints and what the log receives.     *)

Run(text) == [found |-> TRUE, rc |-> 0, decodable |-> TRUE, stdout |-> text]

\* the command ends with a non-zero exit code after printing text
FailedRun(text) == [found |-> TRUE, rc |-> 1, decodable |-> TRUE, stdout |-> text]

\* /opt/otrs/bin/otrs.Console.pl does not exist
MissingRun == [found |-> FALSE, rc |-> 127, decodable |-> TRUE, stdout |-> EmptyText]

\* the output is not valid UTF-8
GarbledRun == [found |-> TRUE, rc |-> 0, decodable |-> FALSE, stdout |-> EmptyText]

CronRowSuccess == TableRow(FALSE, << <<"J", "o", "b", "F", "o", "o">>, <<"1", "2", ":", "0", "0", "-", "1", "2", ":", "0", "5">>, W_Success >>)

CronRowFail == TableRow(FALSE, << <<"J", "o", "b", "B", "a", "r">>, <<"1", "2", ":", "0", "0">>, W_Fail >>)

Commands == {"mailq", "daemon", "config", "db", "elastic", "index"}

NominalEnv ==
    [ mailq |-> Run(<< TextLine(<<"M", "a", "i", "l", " ", "q", "u", "e", "u", "e", " ", "i", "s", " ", "e", "m", "p", "t", "y", ".">>) >>), daemon |-> Run(<< CronRowSuccess, CronRowFail >>),
      config |-> Run(<< TextLine(<<"A", "l", "l", " ", "s", "e", "t", "t", "i", "n", "g", "s", " ", "a", "r", "e", " ", "v", "a", "l", "i", "d", ".">>) >>), db |-> Run(<< TextLine(W_ConnectionSuccessful), TextLine(<<"M", "a", "x", " ", "S", "i", "z", "e", ":", " ", "5", "1", "2", " ", "M", "B", " ", "(", "O", "K", ")">>) >>),
      elastic |-> Run(<< TextLine(W_ConnectionSuccessful), TableRow(TRUE, << W_Status, <<"G", "r", "e", "e", "n">> >>), TableRow(TRUE, << W_Node, <<"n", "o", "d", "e", "1">> >>), TableRow(TRUE, << W_Status, W_Online >>) >>), index |-> Run(<< TableRow(TRUE, << <<"T", "i", "c", "k", "e", "t", "A", "r", "t", "i", "c", "l", "e">>, <<"1", "0">>, <<"5">> >>) >>) ]

\* the binary is the same for every command: when it is missing, every run fails
MissingEnv == [c \in Commands |-> MissingRun]

\* the runs of one command that depart from the nominal one: no output, a
\* failed run that printed nothing, undecodable output, another output
Variants ==
    [ mailq |-> << Run(EmptyText), FailedRun(EmptyText), GarbledRun,
                   Run(<< TableRow(FALSE, << <<"1">>, <<"Q", "u", "e", "u", "e", "d">> >>) >>) >>,
      daemon |-> << Run(EmptyText), FailedRun(EmptyText), GarbledRun,
                    Run(<< CronRowFail >>) >>,
      config |-> << Run(EmptyText), FailedRun(EmptyText), GarbledRun,
                    Run(<< TextLine(<<"I", "n", "v", "a", "l", "i", "d", ":", " ", "X">>) >>) >>,
      db |-> << Run(EmptyText), FailedRun(EmptyText), GarbledRun,
                Run(<< TextLine(<<"E", "r", "r", "o", "r", ":", " ", "n", "o", " ", "c", "o", "n", "n", "e", "c", "t", "i", "o", "n">>) >>), Run(<< TextLine(W_ConnectionSuccessful), TextLine(<<"C", "h", "a", "r", "s", "e", "t", ":", " ", "u", "t", "f", "8", " ", "(", "O", "K", ")">>) >>) >>,
      elastic |-> << Run(EmptyText), FailedRun(EmptyText), GarbledRun,
                     Run(<< TableRow(TRUE, << W_Status, <<"Y", "e", "l", "l", "o", "w">> >>), TableRow(TRUE, << W_Node, <<"n", "o", "d", "e", "1">> >>), TableRow(TRUE, << W_Status, W_Online >>), TableRow(TRUE, << W_Node, <<"n", "o", "d", "e", "2">> >>), TableRow(TRUE, << W_Status, <<"O", "f", "f", "-", "l", "i", "n", "e">> >>) >>) >>,
      index |-> << Run(EmptyText), FailedRun(EmptyText), GarbledRun,
                   Run(<< TableRow(TRUE, << <<"T", "i", "c", "k", "e", "t">>, <<"0">>, <<"0">> >>) >>) >> ]

\* a scrape's environment is named <<command, variant>>: the nominal runs
\* with that command's run replaced
EnvIds ==
    { <<"nominal", 0>>, <<"missing", 0>> }
    \cup UNION { { <<c, i>> : i \in DOMAIN Variants[c] } : c \in Commands }

Env(id) ==
    IF id[1] = "nominal" THEN NominalEnv
    ELSE IF id[1] = "missing" THEN MissingEnv
    ELSE [NominalEnv EXCEPT ![id[1]] = Variants[id[1]][id[2]]]

\* the scrapes that differ in the database check only
DbEnvIds == { <<"nominal", 0>>, <<"missing", 0>>, <<"db", 3>>, <<"db", 4>>, <<"db", 5>> }

\* the scrapes that leave the console as it is, or without its binary
LogEnvIds == { <<"nominal", 0>>, <<"missing", 0>> }

\* a line that is no mail error, and one that holds two of the patterns
LogLines == { <<"d", "o", "n", "e">>, <<"S", "/", "M", "I", "M", "E", " ", "P", "o", "s", "t", "M", "a", "s", "t", "e", "r">> }

\* the clock at start: datetime.min is 0, and only differences and the time
\* of day enter the code, so the first day stands for any later one
StartTimes == { 24 * 3600 + 600, 24 * 3600 + 12 * 3600 }

TickSteps == { 1, 899, 24 * 3600 }

----------------------------------------------------------------------------
(* One scrape: OtrsConnector.collect(), run to its end or to the exception *)
(* that leaves it.                                                          *)

\* the methods of collect() that read no field of the connector, and the two
\* database checks, for the runs of env
Stateless(env) ==
    [ s2 |-> _metric_mail_queue_empty(env.mailq),
      s3 |-> _metric_failing_crons(env.daemon),
      s4 |-> _metric_config_valid(env.config),
      db_status |-> get_db_status(env.db),
      db_stats |-> get_additional_db_stats(env.db),
      s7 |-> _metric_daemon_summary(env.daemon),
      s8 |-> _metric_elastic_status_ok(env.elastic),
      s9 |-> _metric_elastic_cluster_status(env.elastic),
      s10 |-> _metric_elastic_all_nodes_status(env.elastic),
      s11 |-> _metric_elastic_overall_node_status(env.elastic),
      s12 |-> _metric_elastic_index_states(env.index) ]

\* evaluated once for each environment of the model
StatelessOf == [id \in EnvIds |-> Stateless(Env(id))]

\* the values _db_stats_cache takes: the placeholder and the parsed stats
StatsCaches ==
    { <<>> } \cup { r.val : r \in { x \in { StatelessOf[id].db_stats : id \in EnvIds } :
                                         x.exc = NoExc } }

\* evaluated once for each value the stats cache takes
DbStatsFamiliesOf == [c \in StatsCaches |-> DbStatsFamilies(c)]

FirstRaise(steps) ==
    IF \E i \in DOMAIN steps : steps[i].exc # NoExc
    THEN CHOOSE i \in DOMAIN steps :
            /\ steps[i].exc # NoExc
            /\ \A j \in 1..(i - 1) : steps[j].exc = NoExc
    ELSE Len(steps) + 1

RECURSIVE Yielded(_, _)
Yielded(steps, n) ==
    IF n = 0 THEN <<>> ELSE Yielded(steps, n - 1) \o steps[n].val

\* collect() with what it reads: the results of the stateless steps in this
\* environment, the families of each cached stats map, the lines polled
CollectIn(id, run, families, lines) ==
    LET \* _metric_mail_error_count
        new_errors == get_mail_fetcher_errors(lines)
        errors == MailErrorTotal(mail_fetcher_errors,
                                 now - last_mail_error_occurred, new_errors)
        s1 == Ok(<< Family("_metric_mail_error_count",
                           <<"o", "t", "r", "s", "_", "m", "a", "i", "l", "_",
                             "e", "r", "r", "o", "r">>,
                           "gauge", Value(Flt(Num(errors)))) >>)
        reached_ok == run.s2.exc = NoExc /\ run.s3.exc = NoExc /\ run.s4.exc = NoExc
        \* _metric_db_status_ok
        ok_due == CheckIsDue(now - last_db_ok_check_performed)
        ok_run == CacheOrCheck(ok_due, run.db_status, db_ok_cache)
        ok_stored == reached_ok /\ ok_due /\ ok_run.exc = NoExc
        s5 == GaugeOf("_metric_db_status_ok",
                      <<"o", "t", "r", "s", "_", "d", "b", "_", "s", "t", "a",
                        "t", "u", "s", "_", "o", "k">>,
                      IntResult(ok_run))
        \* _metric_db_additional_stats
        reached_stats == reached_ok /\ s5.exc = NoExc
        stats_due == CheckIsDue(now - last_db_check_performed)
        stats_run == CacheOrCheck(stats_due, run.db_stats, db_stats_cache)
        stats_stored == reached_stats /\ stats_due /\ stats_run.exc = NoExc
        s6 == IF stats_run.exc # NoExc THEN stats_run
              ELSE families[stats_run.val]
        steps == << s1, run.s2, run.s3, run.s4, s5, s6, run.s7, run.s8, run.s9,
                    run.s10, run.s11, run.s12 >>
        stop == FirstRaise(steps)
    IN  /\ log' = Len(logfile)
        /\ offset_file' = Len(logfile)
        /\ mail_fetcher_errors' = errors
        /\ last_mail_error_occurred' =
              IF new_errors > 0 THEN now ELSE last_mail_error_occurred
        /\ db_ok_cache' = IF ok_stored THEN ok_run.val ELSE db_ok_cache
        /\ last_db_ok_check_performed' =
              IF ok_stored THEN now ELSE last_db_ok_check_performed
        /\ db_stats_cache' = IF stats_stored THEN stats_run.val ELSE db_stats_cache
        /\ last_db_check_performed' =
              IF stats_stored THEN now ELSE last_db_check_performed
        /\ batch' = Yielded(steps, stop - 1)
        /\ raised' = IF stop > Len(steps) THEN NoExc ELSE steps[stop].exc
        /\ obs' = [ collected |-> TRUE,
                    at |-> now,
                    env |-> id,
                    new_errors |-> new_errors,
                    polled |-> Len(lines),
                    mail_before |-> mail_fetcher_errors,
                    mail_elapsed |-> now - last_mail_error_occurred,
                    ok_reached |-> reached_ok,
                    ok_elapsed |-> now - last_db_ok_check_performed,
                    ok_checked |-> reached_ok /\ ok_due,
                    stats_reached |-> reached_stats,
                    stats_elapsed |-> now - last_db_check_performed,
                    stats_checked |-> reached_stats /\ stats_due ]
        /\ hist' = [ polls_total |-> hist.polls_total + new_errors,
                     counted |-> hist.counted + new_errors,
                     delivered |-> [i \in DOMAIN hist.delivered |->
                                      hist.delivered[i]
                                      + (IF i > log THEN 1 ELSE 0)] ]
        /\ UNCHANGED << now, ticks, logfile, pc, arg, out >>

Collect(id) ==
    CollectIn(id, StatelessOf[id], DbStatsFamiliesOf, PollNewLines(logfile, log))

----------------------------------------------------------------------------
(* The exporter process.                                                    *)

NoObs ==
    [ collected |-> FALSE, at |-> 0, env |-> <<"nominal", 0>>, new_errors |-> 0,
      polled |-> 0, mail_before |-> 0, mail_elapsed |-> 0,
      ok_reached |-> FALSE, ok_elapsed |-> 0, ok_checked |-> FALSE,
      stats_reached |-> FALSE, stats_elapsed |-> 0, stats_checked |-> FALSE ]

HarnessIdle == pc = "off" /\ arg = <<>> /\ out = <<>>

\* the class attributes of OtrsConnector, and a reader at the stored offset
ConnectorIdle ==
    /\ now \in StartTimes
    /\ ticks = 0
    /\ last_db_check_performed = 0
    /\ last_db_ok_check_performed = 0
    /\ last_mail_error_occurred = 0
    /\ db_stats_cache = <<>>
    /\ db_ok_cache = 0
    /\ mail_fetcher_errors = 0
    /\ logfile = <<>>
    /\ log = 0
    /\ offset_file = 0
    /\ batch = <<>>
    /\ raised = NoExc
    /\ obs = NoObs
    /\ hist = [polls_total |-> 0, counted |-> 0, delivered |-> <<>>]

Init == ConnectorIdle /\ HarnessIdle

\* time passes between two scrapes
Tick ==
    /\ ticks < MaxTicks
    /\ \E d \in TickSteps : now' = now + d
    /\ ticks' = ticks + 1
    /\ UNCHANGED << last_db_check_performed, last_db_ok_check_performed,
                    last_mail_error_occurred, db_stats_cache, db_ok_cache,
                    mail_fetcher_errors, logfile, log, offset_file, batch,
                    raised, obs, hist, pc, arg, out >>

\* the daemon appends a line to the watched log
AppendLine ==
    /\ Len(logfile) < MaxLog
    /\ \E l \in LogLines : logfile' = Append(logfile, l)
    /\ hist' = [hist EXCEPT !.delivered = Append(@, 0)]
    /\ UNCHANGED << now, ticks, last_db_check_performed,
                    last_db_ok_check_performed, last_mail_error_occurred,
                    db_stats_cache, db_ok_cache, mail_fetcher_errors, log,
                    offset_file, batch, raised, obs, pc, arg, out >>

\* a scrape request: the registry runs collect()
Scrape == \E id \in EnvIds : Collect(id)

\* a scrape in which at most the database check departs from the nominal run
ScrapeDb == \E id \in DbEnvIds : Collect(id)

\* a scrape in which the console runs as usual or is missing
ScrapeLog == \E id \in LogEnvIds : Collect(id)

\* the process is started again: a new OtrsConnector, a new Pygtail that
\* reads its offset file
Restart ==
    /\ obs.collected
    /\ last_db_check_performed' = 0
    /\ last_db_ok_check_performed' = 0
    /\ last_mail_error_occurred' = 0
    /\ db_stats_cache' = <<>>
    /\ db_ok_cache' = 0
    /\ mail_fetcher_errors' = 0
    /\ log' = offset_file
    /\ batch' = <<>>
    /\ raised' = NoExc
    /\ obs' = NoObs
    /\ hist' = [hist EXCEPT !.polls_total = 0]
    /\ UNCHANGED << now, ticks, logfile, offset_file, pc, arg, out >>

\* the process with every environment of the model
Next == Tick \/ Scrape

\* started ten minutes past midnight: the ticks take the clock past the
\* first quarter of an hour of the day
InitNight == Init /\ now = 24 * 3600 + 600

Spec == InitNight /\ [][Next]_vars

\* the process and its database: the cache of the two database checks
NextCache == Tick \/ ScrapeDb \/ Restart

SpecCache == Init /\ [][NextCache]_vars

\* the process and its log: the tail reader and the mail error count
NextLog == Tick \/ AppendLine \/ ScrapeLog \/ Restart

SpecLog == InitNight /\ [][NextLog]_vars

----------------------------------------------------------------------------
(* The parsers on their own: an input is drawn, then the function named   *)
(* in arg.fn is applied to it and its result kept in out.                  *)

SeqsUpTo(S, n) == UNION { [1..k -> S] : k \in 0..n }

CronRows ==
    { CronRowSuccess,
      TableRow(FALSE, << <<"J", "o", "b", "F", "o", "o">>, <<"1", "2", ":", "0", "0", "-", "1", "2", ":", "0", "5">>, W_Fail >>),
      TableRow(FALSE, << <<"J", "o", "b", "_", "X">>, <<"1", "2", ":", "0", "0">>, W_Fail >>),
      TableRow(FALSE, << <<"J", "o", "b", "B", "a", "r">>, <<"n", "/", "a">>, W_Fail >>),
      TextLine(<<"D", "a", "e", "m", "o", "n", " ", "r", "u", "n", "n", "i", "n", "g">>) }

ElasticRows ==
    { TableRow(TRUE, << W_Status, W_Online >>),
      TableRow(TRUE, << W_Status, <<"O", "f", "f", "-", "l", "i", "n", "e">> >>),
      TableRow(TRUE, << W_Status, <<"I", "n", "-", "s", "y", "n", "c">> >>),
      TableRow(TRUE, << W_Status, <<"G", "r", "e", "e", "n">> >>),
      TableRow(TRUE, << W_Status, <<"B", "l", "u", "e">> >>),
      TableRow(TRUE, << W_Node, <<"n", "o", "d", "e", "1">> >>) }

\* the words of a stat's value as the console prints it
RawTokens == { <<"5", "1", "2">>, <<"M", "B">>, <<"G", "B">>, <<"k", "B">>, <<"u", "t", "f", "8">>, <<"(", "O", "K", ")">>, <<"(", "I", "n", "f", "o", ")">> }

\* the elements of a value list as the normalizer may receive it
ListTokens == { <<"5", "1", "2">>, W_MB, W_GB, <<"u", "t", "f", "8">>, <<"-">>, W_OK, <<"(", "O", "K", ")">> }

StatLabel == <<"M", "a", "x", " ", "S", "i", "z", "e">>

Processes ==
    [ found : BOOLEAN, rc : {0, 1}, decodable : BOOLEAN,
      stdout : {EmptyText, << TextLine(<<"M", "a", "i", "l", " ", "q", "u", "e", "u", "e", " ", "i", "s", " ", "e", "m", "p", "t", "y", ".">>) >>} ]

HarnessInit ==
    /\ pc = "in"
    /\ out = <<>>
    /\ \/ arg \in [fn : {"call_otrs_cli"}, x : Processes]
       \/ arg \in [fn : {"get_job_success_rate", "get_failing_crons"},
                   x : SeqsUpTo(CronRows, MaxRows)]
       \/ arg \in [fn : {"get_elastic_overall_nodes_status",
                         "get_elastic_overall_cluster_status"},
                   x : SeqsUpTo(ElasticRows, MaxRows)]
       \/ arg \in [fn : {"prepare_additional_stats_dict"},
                   x : SeqsUpTo(ListTokens, MaxTokens) \ {<<>>}]
       \/ arg \in [fn : {"_metric_db_additional_stats"},
                   x : SeqsUpTo(RawTokens, MaxTokens) \ {<<>>}]

Apply(fn, result) ==
    /\ pc = "in"
    /\ arg.fn = fn
    /\ out' = result
    /\ pc' = "out"
    /\ UNCHANGED << arg, now, ticks, last_db_check_performed,
                    last_db_ok_check_performed, last_mail_error_occurred,
                    db_stats_cache, db_ok_cache, mail_fetcher_errors, logfile,
                    log, offset_file, batch, raised, obs, hist >>

ApplyInvoker == Apply("call_otrs_cli", call_otrs_cli(arg.x))

ApplySuccessRate == Apply("get_job_success_rate", get_job_success_rate(Run(arg.x)))

ApplyFailingCrons == Apply("get_failing_crons", get_failing_crons(Run(arg.x)))

ApplyNodesStatus ==
    Apply("get_elastic_overall_nodes_status",
          get_elastic_overall_nodes_status(Run(arg.x)))

ApplyClusterStatus ==
    Apply("get_elastic_overall_cluster_status",
          get_elastic_overall_cluster_status(Run(arg.x)))

\* the normalizer on one value list, under the key "k"
ApplyPrepare ==
    Apply("prepare_additional_stats_dict",
          prepare_additional_stats_dict(
              << [k |-> <<"k">>, v |-> [i \in DOMAIN arg.x |-> Str(arg.x[i])]] >>))

\* the console prints "Max Size: <the words of arg.x>": the stats parsed
\* from it, then normalized, then built into families
StatsOfRaw(words) ==
    get_additional_db_stats(
        Run(<< TextLine(StatLabel \o <<":", " ">> \o Join(words)) >>))

NormalizedStats(cache) ==
    prepare_additional_stats_dict(
        [i \in DOMAIN cache |-> [k |-> <<"o", "t", "r", "s", "_", "a", "d", "d", "i", "t", "i", "o", "n", "a", "l", "_", "d", "b", "_", "s", "t", "a", "t", "s", "_">> \o cache[i].k,
                                 v |-> SplitValue(cache[i].v)]])

ApplyDbStats ==
    Apply("_metric_db_additional_stats",
          LET parsed == StatsOfRaw(arg.x).val
          IN  [ exc |-> DbStatsFamilies(parsed).exc,
                val |-> DbStatsFamilies(parsed).val,
                parsed |-> parsed,
                prepared |-> NormalizedStats(parsed) ])

NextParsers ==
    \/ ApplyInvoker
    \/ ApplySuccessRate
    \/ ApplyFailingCrons
    \/ ApplyNodesStatus
    \/ ApplyClusterStatus
    \/ ApplyPrepare
    \/ ApplyDbStats

InitParsers == ConnectorIdle /\ now = 24 * 3600 + 600 /\ HarnessInit

SpecParsers == InitParsers /\ [][NextParsers]_vars

----------------------------------------------------------------------------
(* The cache of the two database checks.                                   *)

\* the entry had been refreshed by a check before this scrape
OkEntryExists == obs.ok_elapsed < obs.at

StatsEntryExists == obs.stats_elapsed < obs.at

\* C1: for each of the two cached database checks, a scrape that comes to
\* the check with an entry taken `elapsed` seconds before reuses the entry if
\* and only if elapsed < 900, and re-runs the check otherwise, for every
\* elapsed time, 900 seconds and more than one day included.
C1_ReusedIffWithinWindow ==
    obs.collected =>
        /\ (obs.ok_reached /\ OkEntryExists) =>
              (obs.ok_checked <=> ~(obs.ok_elapsed < CacheWindow))
        /\ (obs.stats_reached /\ StatsEntryExists) =>
              (obs.stats_checked <=> ~(obs.stats_elapsed < CacheWindow))

----------------------------------------------------------------------------
(* The mail error count.                                                    *)

\* C2 as the specification states it: the value of otrs_mail_error is the
\* sum of the new-match counts of all polls since the start of the process,
\* and no scrape leaves it lower than it found it.
C2_RunningTotalNeverReset ==
    obs.collected =>
        /\ mail_fetcher_errors = hist.polls_total
        /\ mail_fetcher_errors >= obs.mail_before

\* C2: the value of otrs_mail_error is a windowed total. A scrape leaves it
\* at the poll's new-match count, added to the value before the scrape only
\* if the seconds-of-day part of the time since the last scrape that found a
\* match (the whole days left out) is below 900; it is never above the sum of
\* the new-match counts of all polls.
C2_WindowedTotal ==
    obs.collected =>
        /\ mail_fetcher_errors =
              obs.new_errors
              + (IF obs.mail_elapsed % (24 * 3600) < 900 THEN obs.mail_before ELSE 0)
        /\ mail_fetcher_errors <= hist.polls_total

\* a scrape after the window has lapsed drops the matches counted before
C2_TotalDropped ==
    /\ obs.collected
    /\ obs.mail_before > 0
    /\ obs.mail_elapsed % (24 * 3600) >= 900
    /\ mail_fetcher_errors < obs.mail_before

----------------------------------------------------------------------------
(* One failing command in a scrape.                                         *)

\* the signals of collect() that yield one family each, whatever the input
SingleFamilySignals ==
    { "_metric_mail_error_count", "_metric_mail_queue_empty",
      "_metric_failing_crons", "_metric_config_valid", "_metric_db_status_ok",
      "_metric_daemon_summary", "_metric_elastic_status_ok",
      "_metric_elastic_cluster_status", "_metric_elastic_all_nodes_status",
      "_metric_elastic_overall_node_status" }

\* the scrape ran with one command's captured output empty
OneCommandFailed ==
    /\ obs.collected
    /\ obs.env[1] \in Commands
    /\ Variants[obs.env[1]][obs.env[2]].found
    /\ Variants[obs.env[1]][obs.env[2]].decodable
    /\ Variants[obs.env[1]][obs.env[2]].stdout = EmptyText

\* C3: a scrape in which the command behind one signal fails, its captured
\* output being empty text, runs to completion and emits a sample for every
\* signal.
C3_FailureNeverAbortsScrape ==
    OneCommandFailed =>
        /\ raised = NoExc
        /\ \A s \in SingleFamilySignals :
              \E i \in DOMAIN batch : batch[i].signal = s

----------------------------------------------------------------------------
(* The parsers.                                                             *)

Applied(fn) == pc = "out" /\ arg.fn = fn

\* C4: the daemon job success rate is successCount / (successCount +
\* failCount), the counts being the occurrences of "Success" and "Fail" in
\* the output, and it is 0, not an error, when both counts are 0.
C4_SuccessRateDefined ==
    Applied("get_job_success_rate") =>
        LET success == TextCount(arg.x, W_Success)
            fail == TextCount(arg.x, W_Fail)
        IN  /\ out.exc = NoExc
            /\ IF success + fail = 0 THEN NumEq(out.val, Num(0))
               ELSE /\ out.val.e = 0
                    /\ out.val.num * (success + fail) = success * out.val.den

\* C5: running a diagnostic command never raises: it returns empty text when
\* the process is not found, exits non-zero or prints what is not UTF-8, and
\* the captured standard output otherwise.
C5_InvokerNeverRaises ==
    Applied("call_otrs_cli") =>
        /\ out.exc = NoExc
        /\ out.val = IF ~arg.x.found \/ arg.x.rc # 0 \/ ~arg.x.decodable
                     THEN EmptyText ELSE arg.x.stdout

\* C6: a parse mismatch never produces an exception: for an output in which
\* the pattern is absent or a captured field has an unexpected value, the
\* parser and the metric built from it return a default.
C6_MismatchNeverRaises ==
    (pc = "out" /\ arg.fn \in { "get_elastic_overall_cluster_status",
                                "prepare_additional_stats_dict",
                                "_metric_db_additional_stats",
                                "get_failing_crons",
                                "get_elastic_overall_nodes_status" }) =>
        out.exc = NoExc

----------------------------------------------------------------------------
(* The log reader.                                                          *)

----------------------------------------------------------------------------
(* The overall node status.                                                 *)

\* the set of the node states that the pattern extracts from the output
ExtractedStates ==
    { arg.x[i].cells[2] : i \in { j \in DOMAIN arg.x : NodeStateMatches(arg.x[j]) } }

Colour(name) == state_to_bool[DictGet(state_to_bool, name)].v

\* C8: the overall node status is a function of the set of the extracted
\* node states: Red when "On-line" is not among them, none extracted
\* included, Yellow when "On-line" is there with another state, Green when
\* "On-line" is the only state.
C8_NodeStatusFromSet ==
    Applied("get_elastic_overall_nodes_status") =>
        /\ out.exc = NoExc
        /\ out.val = IF W_Online \notin ExtractedStates THEN Colour(<<"R", "e", "d">>)
                     ELSE IF ExtractedStates = {W_Online} THEN Colour(<<"G", "r", "e", "e", "n">>)
                     ELSE Colour(<<"Y", "e", "l", "l", "o", "w">>)

\* two nodes on line and one off line: Yellow
C8_DegradedSeen ==
    /\ Applied("get_elastic_overall_nodes_status")
    /\ Len(arg.x) = 3
    /\ ExtractedStates = { W_Online, <<"O", "f", "f", "-", "l", "i", "n", "e">> }
    /\ out.val = Half

----------------------------------------------------------------------------
(* The stats normalizer.                                                    *)

IsByteUnit(u) == u \in { W_MB, W_GB }

\* value * 1024 * 1024 for MB, value * 1024 * 1024 * 1024 for GB
BytesOf(v, u) ==
    Flt([num |-> ParseDigits(v), den |-> 1, e |-> IF u = W_MB THEN 2 ELSE 3])

\* the bytes of a value that 32 bits hold
Plain(x) == (x.x.num * (IF x.x.e = 2 THEN 1024 * 1024 ELSE 1)) \div x.x.den

Unparenthesised(s) == SubSeq(s, 2, Len(s) - 1)

IsTag(s) == Len(s) > 2 /\ Head(s) = "(" /\ s[Len(s)] = ")"

\* C9 as the specification states it: for the three tokens value, unit MB or
\* GB, classification tag the normalizer gives the value in bytes and the
\* tag, and a second token that is no byte-size suffix is kept.
C9_ThreeTokens ==
    (Applied("prepare_additional_stats_dict") /\ Len(arg.x) = 3
        /\ IsFloat(arg.x[1]) /\ (IsTag(arg.x[3]) \/ arg.x[3] = W_OK)) =>
        /\ out.exc = NoExc
        /\ IsByteUnit(arg.x[2]) =>
              /\ Len(out.val[1].v) = 2
              /\ out.val[1].v[1] = BytesOf(arg.x[1], arg.x[2])
              /\ out.val[1].v[2] \in { Str(arg.x[3]), Str(Unparenthesised(arg.x[3])) }
        /\ ~IsByteUnit(arg.x[2]) =>
              \E i \in DOMAIN out.val[1].v : out.val[1].v[i] = Str(arg.x[2])

\* C9: the normalizer converts a value of four tokens, as the parser of the
\* database check leaves it: for value, unit, separator, tag it gives the
\* value times 1024*1024 (MB) or 1024*1024*1024 (GB) and the tag; the token
\* after the value is dropped whatever it is; of three tokens only the last
\* is left. The printed "512 MB (OK)" is parsed to "512 MB - OK" and so
\* normalized to 536870912 and "OK".
C9_FourTokens ==
    /\ (Applied("prepare_additional_stats_dict") /\ Len(arg.x) = 4
          /\ IsFloat(arg.x[1])) =>
          /\ out.exc = NoExc
          /\ out.val[1].v =
                IF IsByteUnit(arg.x[2])
                THEN << BytesOf(arg.x[1], arg.x[2]), Str(arg.x[4]) >>
                ELSE << Str(arg.x[1]), Str(arg.x[4]) >>
          /\ arg.x = << <<"5", "1", "2">>, W_MB, <<"-">>, W_OK >> =>
                Plain(out.val[1].v[1]) = 536870912
    /\ (Applied("prepare_additional_stats_dict") /\ Len(arg.x) = 3
          /\ IsFloat(arg.x[1])) =>
          out = Ok(<< [k |-> <<"k">>, v |-> << Str(arg.x[3]) >>] >>)
    /\ (Applied("_metric_db_additional_stats") /\ Len(arg.x) = 3
          /\ IsFloat(arg.x[1]) /\ IsByteUnit(arg.x[2]) /\ IsTag(arg.x[3])) =>
          /\ out.prepared.exc = NoExc
          /\ out.prepared.val[1].v =
                << BytesOf(arg.x[1], arg.x[2]), Str(Unparenthesised(arg.x[3])) >>

\* the four tokens of "512 MB - OK" have been normalized
C9_MegaBytesConverted ==
    /\ Applied("prepare_additional_stats_dict")
    /\ arg.x = << <<"5", "1", "2">>, W_MB, <<"-">>, W_OK >>
    /\ out.exc = NoExc
    /\ out.val[1].v[2] = Str(W_OK)

----------------------------------------------------------------------------
(* The failing cron jobs.                                                   *)

Entries(d) == { << d[i].k, d[i].v >> : i \in DOMAIN d }

\* C10 as the specification states it: the failing-jobs map has an entry
\* job-name -> "failed" for exactly the table rows whose status is "Fail".
C10_MappedToFailed ==
    Applied("get_failing_crons") =>
        /\ out.exc = NoExc
        /\ Entries(out.val) =
              { << arg.x[i].cells[1], <<"f", "a", "i", "l", "e", "d">> >> :
                  i \in { j \in DOMAIN arg.x :
                            /\ arg.x[j].table
                            /\ arg.x[j].cells[Len(arg.x[j].cells)] = W_Fail } }

\* the row has a name of letters and digits, a time cell of digits, blanks,
\* colons and dashes, and a third cell that begins with "Fail"
IsFailRow(line) ==
    /\ line.table
    /\ Len(line.cells) >= 3
    /\ line.cells[1] # <<>>
    /\ \A i \in DOMAIN line.cells[1] : IsAlnum(line.cells[1][i])
    /\ \A i \in DOMAIN line.cells[2] : IsTimeChar(line.cells[2][i])
    /\ Len(line.cells[3]) >= 4
    /\ SubSeq(line.cells[3], 1, 4) = <<"F", "a", "i", "l">>

\* C10: the failing-jobs map has an entry job-name -> "0", one for a name,
\* for exactly the table rows whose name is of letters and digits, whose
\* time cell is of digits, blanks, colons and dashes, and whose status
\* begins with "Fail"; a row ending in Success yields no entry.
C10_MappedToZero ==
    Applied("get_failing_crons") =>
        /\ out.exc = NoExc
        /\ Entries(out.val) =
              { << arg.x[i].cells[1], <<"0">> >> :
                  i \in { j \in DOMAIN arg.x : IsFailRow(arg.x[j]) } }
        /\ Len(out.val) = Cardinality(Entries(out.val))

\* the row | JobFoo | 12:00-12:05 | Fail | after a row ending in Success
C10_JobFooSeen ==
    /\ Applied("get_failing_crons")
    /\ Len(arg.x) = 2
    /\ arg.x[1] = CronRowSuccess
    /\ arg.x[2].cells[1] = <<"J", "o", "b", "F", "o", "o">>
    /\ out.val = << [k |-> <<"J", "o", "b", "F", "o", "o">>, v |-> <<"0">>] >>

----------------------------------------------------------------------------
(* The first scrape of a process.                                           *)

\* C11: the first scrape after the start of the process, at whatever time of
\* day it comes, runs each of the two database checks it reaches, so that
\* the placeholders 0 and the empty map are never taken for a check's result.
C11_FirstScrapeRunsChecks ==
    [][ (~obs.collected /\ obs'.collected) =>
            /\ obs'.ok_reached => obs'.ok_checked
            /\ obs'.stats_reached => obs'.stats_checked ]_vars

----------------------------------------------------------------------------
(* A scrape that reuses the cache.                                          *)

\* C12: a scrape that does not run a database check leaves that check's
\* cached result and timestamp as they were, so the timestamp moves only
\* in a scrape that runs the check; and a scrape that reuses an entry emits
\* the database samples the scrape before it emitted, whatever the console
\* prints now.
C12_ReuseLeavesCache ==
    [][ LET OfMethod(b, m) == SelectSeq(b, LAMBDA f : f.signal = m)
        IN  (ticks' = ticks /\ obs'.collected) =>
              /\ ~(obs'.ok_reached /\ obs'.ok_checked) =>
                    /\ db_ok_cache' = db_ok_cache
                    /\ last_db_ok_check_performed' = last_db_ok_check_performed
              /\ ~(obs'.stats_reached /\ obs'.stats_checked) =>
                    /\ db_stats_cache' = db_stats_cache
                    /\ last_db_check_performed' = last_db_check_performed
              /\ (obs.collected /\ obs.stats_reached
                    /\ obs'.ok_reached /\ ~obs'.ok_checked) =>
                    OfMethod(batch', "_metric_db_status_ok")
                      = OfMethod(batch, "_metric_db_status_ok")
              /\ (obs.collected /\ obs.stats_reached
                    /\ obs'.stats_reached /\ ~obs'.stats_checked) =>
                    OfMethod(batch', "_metric_db_additional_stats")
                      = OfMethod(batch, "_metric_db_additional_stats") ]_vars

\* a scrape, one second after the one that ran both checks, in which the
\* console reports no connection: it reuses both entries
C12_ReusedWhileDown ==
    /\ obs.collected
    /\ obs.env = <<"db", 4>>
    /\ obs.stats_reached /\ ~obs.ok_checked /\ ~obs.stats_checked
    /\ obs.ok_elapsed = 1 /\ obs.stats_elapsed = 1
    /\ db_ok_cache = 1
    /\ db_stats_cache # <<>>
    /\ \E i \in DOMAIN batch : batch[i].signal = "_metric_db_additional_stats"

----------------------------------------------------------------------------
(* The names in one batch.                                                  *)

\* C13: in the batch of one collection pass every metric family has a name
\* that no other family of the batch has, so that no two signals are
\* emitted under one metric name.
C13_NamesDistinct ==
    \A i, j \in DOMAIN batch : i # j => batch[i].name # batch[j].name

====
